---- MODULE Spec2Model ----
(***************************************************************************)
(* chizu: the content-addressed cache (CacheRepository) and the bounded-    *)
(* concurrency analysis pipeline (AnalysisService.run) of src/index.ts,     *)
(* together with the CLI operations that drive them (--clear, --clear-all,  *)
(* a normal mapping run).                                                   *)
(*                                                                          *)
(* Paths are sequences of characters, so that prefix matching, the sorted   *)
(* key order of the store and path.resolve / path.relative are computed,    *)
(* not assumed.  The store takes a put at the moment saveChunks issues it.  *)
(***************************************************************************)
EXTENDS Integers, Sequences, FiniteSets, TLC

\* ---------------------------------------------------------------- bounds
MaxBatch == 2   \* largest batchSize handed to run
MaxRuns  == 2   \* runs started in one behaviour
MaxEdits == 1   \* file modifications in one behaviour

\* ---------------------------------------------------------------- paths
\* byte order of the characters ('/' sorts before the letters)
CharOrd(c) == CASE c = "/" -> 1 [] c = "a" -> 2 [] c = "b" -> 3

\* the directory tree: /a/a, /a/b and the sibling directory /ab with /ab/a
Files == { <<"/", "a", "/", "a">>, <<"/", "a", "/", "b">>, <<"/", "a", "b", "/", "a">> }

\* what the user may type as [directory]
\* (/aa is a directory without files, /b names nothing)
DirArgs == { <<"/">>, <<"/", "a">>, <<"/", "a", "/">>, <<"/", "a", "b">>, <<"/", "a", "a">>,
             <<"/", "b">> }

\* the directories of the tree
ExistingDirs == { <<"/">>, <<"/", "a">>, <<"/", "a", "b">>, <<"/", "a", "a">> }

\* (mutant) the check of the target is left out
DirExistsAlways(d) == TRUE

\* fs.existsSync(targetPath)
DirExists(d) == d \in ExistingDirs

\* path.join(dir, rel) of a resolved directory and a relative path
Join(d, r) == IF d = <<"/">> THEN d \o r ELSE d \o <<"/">> \o r

\* path.resolve of an absolute path without dot segments: drops a trailing separator
Resolve(p) == IF Len(p) > 1 /\ p[Len(p)] = "/" THEN SubSeq(p, 1, Len(p) - 1) ELSE p

\* String.prototype.startsWith
StartsWith(k, p) == Len(p) <= Len(k) /\ SubSeq(k, 1, Len(p)) = p

\* the file k lies in the directory tree rooted at the resolved directory d
Under(k, d) == IF d = <<"/">> THEN StartsWith(k, d) /\ Len(k) > 1
               ELSE StartsWith(k, d \o <<"/">>) /\ Len(k) > Len(d) + 1

\* a path that names no file
Absent == "absent"

\* fast-glob "**/*" with cwd = d, absolute: the existing files below d
Glob(tree, d) == { f \in Files : Under(f, d) /\ tree[f] # Absent }

\* path.relative(from, to) for a file `to` below the directory `from`
Relative(from, to) == IF from = <<"/">> THEN Tail(to) ELSE SubSeq(to, Len(from) + 2, Len(to))

RECURSIVE LexLess(_, _)
\* the store's key order: bytewise lexicographic
LexLess(s, t) == IF s = <<>> THEN t # <<>>
                 ELSE IF t = <<>> THEN FALSE
                 ELSE IF Head(s) = Head(t) THEN LexLess(Tail(s), Tail(t))
                 ELSE CharOrd(Head(s)) < CharOrd(Head(t))

RECURSIVE SortKeys(_)
\* the keys of S in the store's order
SortKeys(S) == IF S = {} THEN <<>>
               ELSE LET m == CHOOSE x \in S : \A y \in S \ {x} : LexLess(x, y)
                    IN <<m>> \o SortKeys(S \ {m})

\* (mutant) the walk reports every file twice
TargetFilesTwice(tree, d) ==
    LET l == SortKeys(Glob(tree, d)) IN [k \in 1..(2 * Len(l)) |-> l[(k + 1) \div 2]]

\* targetFiles of the CLI: what glob found below d, each file once, none ignored
TargetFiles(tree, d) == SortKeys(Glob(tree, d))

\* ---------------------------------------------------------------- contents
Contents == {"c0", "c1", "c2"}
Hashes == {"h0", "h1", "h2"}

\* xxhash h64ToString of the content
getHash(content) == CASE content = "c0" -> "h0" [] content = "c1" -> "h1" [] content = "c2" -> "h2"

\* readFileAndChunk: the chunks of a content; "c0" has no entity at all
Extract(content) == CASE content = "c0" -> <<>>
                      [] content = "c1" -> <<"k1">>
                      [] content = "c2" -> <<"k2", "k3">>

\* the tree at the start: /a/a has one entity, /a/b none, /ab/a two
InitialTree == [f \in Files |-> CASE f = <<"/", "a", "/", "a">> -> "c1"
                                  [] f = <<"/", "a", "/", "b">> -> "c0"
                                  [] OTHER -> "c2"]

\* ---------------------------------------------------------------- store
\* JavaScript's null (for a chunk list) and undefined (for a store value)
Null == <<"null">>
Undefined == [hash |-> "undefined", chunks |-> Null]
EmptyDb == [k \in {} |-> Undefined]

\* db.get(key): undefined for a missing key
DbGet(store, key) == IF key \in DOMAIN store THEN store[key] ELSE Undefined

\* (mutant) an existing entry is kept
DbPutIfAbsent(store, key, value) ==
    [k \in (DOMAIN store) \cup {key} |-> IF k \in DOMAIN store THEN store[k] ELSE value]

\* db.put(key, value)
DbPut(store, key, value) == [k \in (DOMAIN store) \cup {key} |-> IF k = key THEN value ELSE store[k]]

\* db.remove(key)
DbRemove(store, key) == [k \in (DOMAIN store) \ {key} |-> store[k]]

\* db.getRange({start}): the keys >= start, in key order
GetRange(store, start) == SortKeys({k \in DOMAIN store : ~LexLess(k, start)})

\* (mutant) the lookup never finds an entry
getCachedChunksNever(store, fullPath, currentHash) == Null

\* (mutant) the stored chunks are returned whatever their hash
getCachedChunksAnyHash(store, fullPath, currentHash) ==
    LET cached == DbGet(store, fullPath)
    IN IF cached # Undefined THEN cached.chunks ELSE Null

\* CacheRepository.getCachedChunks
getCachedChunks(store, fullPath, currentHash) ==
    LET cached == DbGet(store, fullPath)
    IN IF cached # Undefined /\ cached.hash = currentHash THEN cached.chunks ELSE Null

\* CacheRepository.saveChunks
saveChunks(store, fullPath, hash, chunks) == DbPut(store, fullPath, [hash |-> hash, chunks |-> chunks])

RECURSIVE ClearLoopNoCheck(_, _, _, _)
\* (mutant) the loop removes every key of the range, prefix or not
ClearLoopNoCheck(keys, prefix, store, count) ==
    IF keys = <<>> THEN [db |-> store, count |-> count]
    ELSE ClearLoopNoCheck(Tail(keys), prefix, DbRemove(store, Head(keys)), count + 1)

RECURSIVE ClearLoop(_, _, _, _)
\* the for-loop of clearDirectoryCache over the range, with its break
ClearLoop(keys, prefix, store, count) ==
    IF keys = <<>> THEN [db |-> store, count |-> count]
    ELSE IF StartsWith(Head(keys), prefix)
         THEN ClearLoop(Tail(keys), prefix, DbRemove(store, Head(keys)), count + 1)
         ELSE [db |-> store, count |-> count]

\* (mutant) the count starts at one
clearDirectoryCacheFromOne(store, dirPath) ==
    LET absolutePrefix == Resolve(dirPath)
    IN ClearLoop(GetRange(store, absolutePrefix), absolutePrefix, store, 1)

\* CacheRepository.clearDirectoryCache: the store afterwards and the returned count
clearDirectoryCache(store, dirPath) ==
    LET absolutePrefix == Resolve(dirPath)
    IN ClearLoop(GetRange(store, absolutePrefix), absolutePrefix, store, 0)

\* (mutant) only the first key is dropped
clearAllButFirst(store) ==
    IF DOMAIN store = {} THEN store
    ELSE DbRemove(store, CHOOSE k \in DOMAIN store : \A y \in DOMAIN store \ {k} : LexLess(k, y))

\* CacheRepository.clearAll
clearAll(store) == EmptyDb

\* ---------------------------------------------------------------- run
\* (mutant) an empty chunk list counts as a miss too
IsMissOrEmpty(chunks) == chunks = Null \/ chunks = <<>>

\* (mutant) the cache is never trusted
IsMissAlways(chunks) == TRUE

\* `!chunks` of the per-file task: only null is falsy, an empty array is not
IsMiss(chunks) == chunks = Null

\* (mutant) the slice has no end
BatchIdxToEnd(paths, idx, size) == { k \in 1..Len(paths) : idx < k }

\* filePaths.slice(i, i + batchSize), as 1-based positions of filePaths
BatchIdx(paths, idx, size) == { k \in 1..Len(paths) : idx < k /\ k <= idx + size }

\* (mutant) the first task to return resolves the batch, as Promise.race would
AnyResolved(ts, batch) == \E k \in batch : ts[k].st = "done"

\* Promise.all(batch) resolves: every task of the batch has returned
AllResolved(ts, batch) == \A k \in batch : ts[k].st = "done"

\* Map.prototype.set on an insertion-ordered map
MapSet(m, key, val) ==
    IF \E j \in 1..Len(m) : m[j].key = key
    THEN [j \in 1..Len(m) |-> IF m[j].key = key THEN [key |-> key, chunks |-> val] ELSE m[j]]
    ELSE Append(m, [key |-> key, chunks |-> val])

\* (mutant) every file is merged
KeepAll(chunks) == TRUE

\* the guard of the merge step: chunks.length > 0
Keep(chunks) == Len(chunks) > 0

RECURSIVE Merge(_, _, _, _, _)
\* batchResults.forEach over positions from..to of the run
Merge(m, root, paths, ts, range) ==
    IF range = <<>> THEN m
    ELSE LET k == Head(range)
             m1 == IF Keep(ts[k].chunks) THEN MapSet(m, Relative(root, paths[k]), ts[k].chunks) ELSE m
         IN Merge(m1, root, paths, ts, Tail(range))

RECURSIVE Descending(_)
\* (mutant) the results of a batch come last position first
Descending(S) == IF S = {} THEN <<>>
                 ELSE LET m == CHOOSE x \in S : \A y \in S : x >= y IN <<m>> \o Descending(S \ {m})

\* the positions of a batch in input order
RECURSIVE Ascending(_)
Ascending(S) == IF S = {} THEN <<>>
                ELSE LET m == CHOOSE x \in S : \A y \in S : x <= y IN <<m>> \o Ascending(S \ {m})

\* a task not yet started; late: it called the extractor or saved after run had rejected;
\* reads: its fs.readFile calls; at: the loop variable when it started; early: it
\* returned while a task earlier in its batch was still in flight
PendingTask == [st |-> "pending", hash |-> "-", chunks |-> <<>>, look |-> "-", late |-> FALSE,
                reads |-> 0, at |-> -1, early |-> FALSE]

\* (mutant) the loop variable advances one position too far
NextIdxSkip(idx, size) == idx + size + 1

\* i += batchSize
NextIdx(idx, size) == idx + size

VARIABLES
    fs,           \* file -> its content, or Absent
    db,           \* the LMDB store: key -> [hash, chunks]
    pc,           \* "idle", "await", "done", "rejected"
    targetPath,   \* run's targetPath
    filePaths,    \* run's filePaths
    batchSize,    \* run's batchSize
    i,            \* the loop variable of run
    turn,         \* parity of the number of loop iterations run has begun
    tasks,        \* position of filePaths -> the per-file task
    fileMap,      \* run's fileMap, in insertion order
    extractCalls, \* file -> readFileAndChunk invocations of the current run
    db0,          \* the store when the current run started
    edited,       \* a file was modified since the current run started
    prev,         \* the last run that returned, while nothing changed since it started
    last,         \* the last command that ended without a run, its target, outcome and exit;
                  \* during a run: the clear-all that came right before it, without its target
                  \* code; forgotten when a run starts, unless it cleared the whole cache
    thrown,       \* the error run rejected with: the failed call and its file
    runs,         \* runs started so far
    edits         \* file modifications so far

vars == <<fs, db, pc, targetPath, filePaths, batchSize, i, turn, tasks, fileMap,
          extractCalls, db0, edited, prev, last, thrown, runs, edits>>

NoPrev == [valid |-> FALSE, target |-> <<>>, files |-> <<>>, result |-> <<>>]
NoLast == [kind |-> "none", prefix |-> <<>>, count |-> 0, before |-> EmptyDb, code |-> 0]

NoError == [call |-> "none", file |-> <<>>]

runVars == <<targetPath, filePaths, batchSize, i, turn, tasks, fileMap, extractCalls, db0, edited, thrown>>

Init ==
    /\ fs = InitialTree
    /\ db = EmptyDb
    /\ pc = "idle"
    /\ targetPath = <<>>
    /\ filePaths = <<>>
    /\ batchSize = 0
    /\ i = 0
    /\ turn = 0
    /\ tasks = <<>>
    /\ fileMap = <<>>
    /\ extractCalls = [f \in Files |-> 0]
    /\ db0 = EmptyDb
    /\ edited = FALSE
    /\ prev = NoPrev
    /\ last = NoLast
    /\ thrown = NoError
    /\ runs = 0
    /\ edits = 0

\* the environment modifies, creates or deletes a file
EditFile(f, c) ==
    /\ edits < MaxEdits
    /\ pc \in {"idle", "await", "rejected"}
    /\ fs[f] # c
    /\ fs' = [fs EXCEPT ![f] = c]
    /\ edits' = edits + 1
    /\ edited' = TRUE
    /\ prev' = NoPrev
    /\ UNCHANGED <<db, pc, targetPath, filePaths, batchSize, i, turn, tasks, fileMap,
                   extractCalls, db0, last, thrown, runs>>

\* chizu --clear-all [directory]: process.exit(0) before the target is looked at
CmdClearAll(dir) ==
    /\ pc = "idle"
    /\ db' = clearAll(db)
    /\ last' = [kind |-> "clearAll", prefix |-> Resolve(dir), count |-> 0, before |-> db, code |-> 0]
    /\ prev' = NoPrev
    /\ UNCHANGED <<fs, pc, runVars, runs, edits>>

\* chizu --clear [directory]: process.exit(0) before the target is looked at
CmdClear(dir) ==
    /\ pc = "idle"
    /\ LET r == clearDirectoryCache(db, Resolve(dir))
       IN /\ db' = r.db
          /\ last' = [kind |-> "clear", prefix |-> Resolve(dir), count |-> r.count, before |-> db,
                       code |-> 0]
    /\ prev' = NoPrev
    /\ UNCHANGED <<fs, pc, runVars, runs, edits>>

\* chizu [directory] on a target that does not exist: error message, process.exit(1)
CmdNoDir(dir) ==
    /\ pc = "idle"
    /\ ~DirExists(Resolve(dir))
    /\ last' = [kind |-> "nodir", prefix |-> Resolve(dir), count |-> 0, before |-> db, code |-> 1]
    /\ UNCHANGED <<fs, db, pc, runVars, prev, runs, edits>>

\* filePaths.slice(i, i + batchSize) and batch.map: every task of the batch starts its read
StartBatch(ts, paths, idx, size) ==
    [k \in 1..Len(paths) |-> IF k \in BatchIdx(paths, idx, size)
                             THEN [ts[k] EXCEPT !.st = "reading", !.reads = @ + 1, !.at = idx]
                             ELSE ts[k]]

\* the loop head of run with loop variable idx: start the next batch, or return fileMap
LoopHead(ts, paths, idx, size) ==
    IF idx < Len(paths)
    THEN [pc |-> "await", tasks |-> StartBatch(ts, paths, idx, size)]
    ELSE [pc |-> "done", tasks |-> ts]

\* chizu [directory]: glob the target, then service.run(targetPath, targetFiles, batchSize)
\* is called and runs to its first await
StartRun(dir, size) ==
    /\ pc = "idle"
    /\ DirExists(Resolve(dir))
    /\ runs < MaxRuns
    /\ runs' = runs + 1
    /\ targetPath' = Resolve(dir)
    /\ batchSize' = size
    /\ i' = 0
    /\ LET paths == TargetFiles(fs, Resolve(dir))
           h == LoopHead([k \in 1..Len(paths) |-> PendingTask], paths, 0, size)
       IN filePaths' = paths /\ pc' = h.pc /\ tasks' = h.tasks
    /\ turn' = IF 0 < Len(TargetFiles(fs, Resolve(dir))) THEN 1 ELSE 0
    /\ fileMap' = <<>>
    /\ extractCalls' = [f \in Files |-> 0]
    /\ db0' = db
    /\ edited' = FALSE
    /\ thrown' = NoError
    /\ last' = IF last.kind = "clearAll" THEN [last EXCEPT !.prefix = <<>>] ELSE NoLast
    /\ UNCHANGED <<fs, db, prev, edits>>

\* (mutant) the error of a task is swallowed
RejectNever == pc

\* a task that throws rejects the Promise.all and with it the run
Reject == IF pc = "await" THEN "rejected" ELSE pc

\* the rejection reason of run: the error of the first task that threw, as it is
Thrown(call, f) == IF pc = "await" THEN [call |-> call, file |-> f] ELSE thrown

\* the task takes a step after run has rejected
Late == pc = "rejected"

\* readFile of task k settles; hash, lookup and, on a miss, the call of the extractor
\* task k returns while a task at an earlier position of its batch has not
Early(k) == \E j \in BatchIdx(filePaths, i, batchSize) :
                j < k /\ tasks[j].st \in {"reading", "extracting"}

ReadDone(k) ==
    /\ pc \in {"await", "rejected"}
    /\ k \in DOMAIN tasks
    /\ tasks[k].st = "reading"
    /\ LET f == filePaths[k]
           content == fs[f]
       IN IF content = Absent
          THEN /\ tasks' = [tasks EXCEPT ![k].st = "failed"]
               /\ pc' = Reject
               /\ thrown' = Thrown("readFile", f)
               /\ UNCHANGED extractCalls
          ELSE LET hash == getHash(content)
                   chunks == getCachedChunks(db, f, hash)
                   look == IF DbGet(db, f) = Undefined THEN "absent"
                           ELSE IF DbGet(db, f).hash = hash THEN "hit" ELSE "mismatch"
               IN /\ pc' = pc
                  /\ thrown' = thrown
                  /\ IF IsMiss(chunks)
                     THEN /\ tasks' = [tasks EXCEPT ![k].st = "extracting", ![k].hash = hash,
                                                    ![k].look = look, ![k].late = Late]
                          /\ extractCalls' = [extractCalls EXCEPT ![f] = @ + 1]
                     ELSE /\ tasks' = [tasks EXCEPT ![k].st = "done", ![k].hash = hash,
                                                    ![k].chunks = chunks, ![k].look = look,
                                                    ![k].early = Early(k)]
                          /\ UNCHANGED extractCalls
    /\ UNCHANGED <<fs, db, targetPath, filePaths, batchSize, i, turn, fileMap,
                   db0, edited, prev, last, runs, edits>>

\* readFileAndChunk of task k settles (it reads the file itself); saveChunks
ExtractDone(k) ==
    /\ pc \in {"await", "rejected"}
    /\ k \in DOMAIN tasks
    /\ tasks[k].st = "extracting"
    /\ LET f == filePaths[k]
           content == fs[f]
       IN IF content = Absent
          THEN /\ tasks' = [tasks EXCEPT ![k].st = "failed"]
               /\ pc' = Reject
               /\ thrown' = Thrown("readFileAndChunk", f)
               /\ UNCHANGED db
          ELSE /\ tasks' = [tasks EXCEPT ![k].st = "done", ![k].chunks = Extract(content),
                                         ![k].late = Late, ![k].early = Early(k)]
               /\ db' = saveChunks(db, f, tasks[k].hash, Extract(content))
               /\ pc' = pc
               /\ thrown' = thrown
    /\ UNCHANGED <<fs, targetPath, filePaths, batchSize, i, turn, fileMap,
                   extractCalls, db0, edited, prev, last, runs, edits>>

\* Promise.all resolves: merge the batch into fileMap, i += batchSize, loop head
BatchJoin ==
    /\ pc = "await"
    /\ AllResolved(tasks, BatchIdx(filePaths, i, batchSize))
    /\ fileMap' = Merge(fileMap, targetPath, filePaths, tasks,
                        Ascending(BatchIdx(filePaths, i, batchSize)))
    /\ i' = NextIdx(i, batchSize)
    /\ LET h == LoopHead(tasks, filePaths, NextIdx(i, batchSize), batchSize)
       IN pc' = h.pc /\ tasks' = h.tasks
    /\ turn' = IF NextIdx(i, batchSize) < Len(filePaths) THEN 1 - turn ELSE turn
    /\ UNCHANGED <<fs, db, targetPath, filePaths, batchSize,
                   extractCalls, db0, edited, prev, last, thrown, runs, edits>>

\* the process ends after a returned or a rejected run
Exit ==
    /\ pc \in {"done", "rejected"}
    /\ pc' = "idle"
    /\ prev' = IF pc = "done" /\ ~edited
               THEN [valid |-> TRUE, target |-> targetPath, files |-> filePaths, result |-> fileMap]
               ELSE NoPrev
    /\ last' = NoLast
    /\ targetPath' = <<>>
    /\ filePaths' = <<>>
    /\ batchSize' = 0
    /\ i' = 0
    /\ turn' = 0
    /\ tasks' = <<>>
    /\ fileMap' = <<>>
    /\ extractCalls' = [f \in Files |-> 0]
    /\ db0' = EmptyDb
    /\ edited' = FALSE
    /\ thrown' = NoError
    /\ UNCHANGED <<fs, db, runs, edits>>

Next ==
    \/ \E f \in Files, c \in Contents \cup {Absent} : EditFile(f, c)
    \/ \E d \in DirArgs : CmdClearAll(d)
    \/ \E d \in DirArgs : CmdClear(d)
    \/ \E d \in DirArgs : CmdNoDir(d)
    \/ \E d \in DirArgs, size \in 0..MaxBatch : StartRun(d, size)
    \/ \E k \in 1..Cardinality(Files) : ReadDone(k)
    \/ \E k \in 1..Cardinality(Files) : ExtractDone(k)
    \/ BatchJoin
    \/ Exit

Spec == Init /\ [][Next]_vars

\* the event loop runs every continuation that is ready: a settled read, a
\* settled extraction, a resolved Promise.all
FairSpec ==
    /\ Spec
    /\ WF_vars(BatchJoin)
    /\ \A k \in 1..Cardinality(Files) : WF_vars(ReadDone(k)) /\ WF_vars(ExtractDone(k))

TypeOK ==
    /\ pc \in {"idle", "await", "done", "rejected"}
    /\ turn \in {0, 1}
    /\ DOMAIN db \subseteq Files
    /\ \A f \in Files : fs[f] \in Contents \cup {Absent}
    /\ \A k \in DOMAIN tasks : tasks[k].st \in {"pending", "reading", "extracting", "done", "failed"}

\* ---------------------------------------------------------------- claims
Listed(f) == \E k \in DOMAIN filePaths : filePaths[k] = f
InFlight == { k \in DOMAIN tasks : tasks[k].st \in {"reading", "extracting"} }
JustCleared(kind) == last.kind = kind /\ pc = "idle"
\* this run follows, on the same target, a run that returned, and no file
\* changed and no cache command ran since that earlier run started
SecondOfTwo == pc = "done" /\ ~edited /\ prev.valid /\ prev.target = targetPath

\* C1: the second of two successive runs over an unchanged tree returns the same
\* AnalysisResult as the first and invokes the extractor for no file, one whose
\* extraction gave zero chunks included.
C1_Idempotence ==
    SecondOfTwo =>
        /\ filePaths = prev.files
        /\ fileMap = prev.result
        /\ \A f \in Files : extractCalls[f] = 0
        /\ \A k \in DOMAIN tasks : tasks[k].look = "hit"

C1_Witness ==
    /\ SecondOfTwo
    /\ fileMap # <<>>
    /\ \E k \in DOMAIN tasks : tasks[k].look = "hit" /\ tasks[k].chunks = <<>>

\* C2: a task that finds an entry with another fingerprint than the content's
\* invokes the extractor, and once it has returned the entry holds the new
\* fingerprint and the newly extracted chunks; the mismatch itself raises no
\* error (such a task fails only if the file was removed under the run).
C2_Invalidation ==
    \A k \in DOMAIN tasks :
        tasks[k].look = "mismatch" =>
            LET f == filePaths[k]
            IN /\ tasks[k].st \in {"extracting", "done", "failed"}
               /\ extractCalls[f] >= 1
               /\ f \in DOMAIN db0 /\ db0[f].hash # tasks[k].hash
               /\ tasks[k].st = "failed" => edited
               /\ tasks[k].st = "done" =>
                      DbGet(db, f) = [hash |-> tasks[k].hash, chunks |-> tasks[k].chunks]
               /\ (tasks[k].st = "done" /\ ~edited) =>
                      DbGet(db, f) = [hash |-> getHash(fs[f]), chunks |-> Extract(fs[f])]

C2_Witness ==
    \E k \in DOMAIN tasks :
        /\ tasks[k].look = "mismatch" /\ tasks[k].st = "done" /\ ~edited
        /\ tasks[k].chunks # <<>>
        /\ db0[filePaths[k]].chunks # <<>>

\* C3: a run whose files stay untouched invokes the extractor exactly once for
\* each listed file whose entry was absent or held another fingerprint than the
\* content's hash, and never for any other file.
C3_ExtractorCount ==
    /\ \A f \in Files : extractCalls[f] <= 1
    /\ (pc = "done" /\ ~edited) =>
          \A f \in Files :
             extractCalls[f] =
                IF Listed(f) /\ (f \notin DOMAIN db0 \/ db0[f].hash # getHash(fs[f])) THEN 1 ELSE 0

\* A unchanged, B changed since the last run, C new: two invocations
C3_Witness ==
    /\ pc = "done" /\ ~edited /\ Len(filePaths) = 3
    /\ tasks[1].look = "hit" /\ tasks[2].look = "mismatch" /\ tasks[3].look = "absent"
    /\ extractCalls[filePaths[1]] = 0
    /\ extractCalls[filePaths[2]] = 1
    /\ extractCalls[filePaths[3]] = 1
    /\ db[filePaths[2]] # db0[filePaths[2]]
    /\ filePaths[3] \notin DOMAIN db0 /\ filePaths[3] \in DOMAIN db

\* C4: at no point of a run are more than batchSize file tasks started and not
\* yet finished.
C4_BatchBounded == Cardinality(InFlight) <= batchSize

C4_Witness ==
    /\ Len(filePaths) > batchSize
    /\ batchSize > 1
    /\ Cardinality(InFlight) = batchSize

\* C5: no task of a later batch has started unless every task of every earlier
\* batch has returned.
C5_BatchesSerialized ==
    \A j, k \in DOMAIN tasks :
        (batchSize > 0 /\ (k - 1) \div batchSize < (j - 1) \div batchSize
            /\ tasks[j].st # "pending")
        => tasks[k].st = "done"

C5_Witness ==
    /\ batchSize = 2 /\ Len(filePaths) = 3
    /\ tasks[3].st = "extracting"
    /\ tasks[1].st = "done" /\ tasks[2].st = "done"

\* C6: in the returned AnalysisResult every key maps to a non-empty chunk list,
\* a file whose chunks (fresh or cached) are empty is no key, and a file with
\* chunks is a key, under its path relative to targetPath, mapped to them.
C6_EmptyOmitted ==
    pc = "done" =>
        /\ \A j \in 1..Len(fileMap) : fileMap[j].chunks # <<>>
        /\ \A j \in 1..Len(fileMap) : \E k \in DOMAIN tasks : Join(targetPath, fileMap[j].key) = filePaths[k]
        /\ \A k \in DOMAIN tasks :
              LET here == { j \in 1..Len(fileMap) : Join(targetPath, fileMap[j].key) = filePaths[k] }
              IN IF tasks[k].chunks = <<>>
                 THEN here = {}
                 ELSE \E j \in here : here = {j} /\ fileMap[j].chunks = tasks[k].chunks

C6_Witness ==
    /\ pc = "done"
    /\ \E k \in DOMAIN tasks : tasks[k].chunks = <<>> /\ tasks[k].look = "hit"
    /\ \E k \in DOMAIN tasks : tasks[k].chunks # <<>> /\ tasks[k].look = "mismatch"
    /\ targetPath # <<"/">>

\* C7: after clearDirectoryCache(P) no key starting with P is left, every
\* entry whose key does not start with P is there as before, and a store
\* without such a key is unchanged.
C7_PrefixClear ==
    JustCleared("clear") =>
        /\ \A k \in DOMAIN db : ~StartsWith(k, last.prefix)
        /\ \A k \in DOMAIN last.before :
              ~StartsWith(k, last.prefix) => (k \in DOMAIN db /\ db[k] = last.before[k])
        /\ (\A k \in DOMAIN last.before : ~StartsWith(k, last.prefix)) => db = last.before

C7_Witness ==
    /\ JustCleared("clear")
    /\ \E k \in DOMAIN last.before : StartsWith(k, last.prefix)
    /\ \E k \in DOMAIN last.before : ~StartsWith(k, last.prefix) /\ LexLess(k, last.prefix)
    /\ Cardinality(DOMAIN db) = 2

\* C8: clearDirectoryCache(dir) removes no entry of a file that does not lie
\* in the directory tree below dir.
C8_OnlyBelowDir ==
    JustCleared("clear") =>
        \A k \in DOMAIN last.before : ~Under(k, last.prefix) => k \in DOMAIN db

\* C9: clearDirectoryCache returns the number of keys that had the prefix
\* before the call, which is the number of entries it removed.
C9_ClearCount ==
    JustCleared("clear") =>
        /\ last.count = Cardinality({ k \in DOMAIN last.before : StartsWith(k, last.prefix) })
        /\ last.count = Cardinality(DOMAIN last.before) - Cardinality(DOMAIN db)

C9_Witness ==
    /\ JustCleared("clear")
    /\ last.count = 3
    /\ last.prefix # <<"/">>

\* C10: after clearAll a lookup of a key cached before it is absent under every
\* fingerprint until a task puts that key again, and the run that follows
\* finds every file absent and invokes the extractor for it.
C10_FullClear ==
    last.kind = "clearAll" =>
        /\ \A k \in DOMAIN last.before :
              (\A j \in DOMAIN tasks : filePaths[j] = k => tasks[j].st # "done")
              => \A h \in Hashes : getCachedChunks(db, k, h) = Null
        /\ \A j \in DOMAIN tasks :
              tasks[j].st \in {"extracting", "done"} =>
                  tasks[j].look = "absent" /\ extractCalls[filePaths[j]] = 1

C10_Witness ==
    /\ last.kind = "clearAll"
    /\ pc = "done"
    /\ \E j \in DOMAIN tasks :
          /\ filePaths[j] \in DOMAIN last.before
          /\ last.before[filePaths[j]].hash = tasks[j].hash
          /\ tasks[j].chunks # <<>>
    /\ \E k \in DOMAIN last.before : ~Listed(k)
\* C11: when the read or the extraction of a file fails, run rejects with that
\* very error and never returns a result, the files merged from earlier batches
\* included; the failed call is not repeated and no later batch is started.
C11_FailFast ==
    /\ (\E k \in DOMAIN tasks : tasks[k].st = "failed") <=> pc = "rejected"
    /\ pc = "rejected" =>
          /\ \E k \in DOMAIN tasks :
                /\ tasks[k].st = "failed" /\ thrown.file = filePaths[k]
                /\ thrown.call = (IF tasks[k].look = "-" THEN "readFile" ELSE "readFileAndChunk")
          /\ \A k \in DOMAIN tasks : k > i + batchSize => tasks[k].st = "pending"
          /\ \A f \in Files : extractCalls[f] <= 1
    /\ pc # "rejected" => thrown = NoError

C11_Witness ==
    /\ pc = "rejected"
    /\ fileMap # <<>>
    /\ thrown.call = "readFileAndChunk"
    /\ \E k \in DOMAIN tasks : tasks[k].st = "pending"

\* C12 (as claimed): once run has rejected, no task goes on to invoke the
\* extractor or to write a cache entry.
C12_GroupAborted == \A k \in DOMAIN tasks : ~tasks[k].late

\* C12 (amended): run rejects at the first failure and starts no further batch,
\* but the tasks of the failed batch are not cancelled: only they, and no task
\* of another batch, may still invoke the extractor and write their entry.
C12_OnlyFailedBatchRunsOn ==
    \A k \in DOMAIN tasks :
        /\ tasks[k].late => (pc = "rejected" /\ i < k /\ k <= i + batchSize)
        /\ (pc = "rejected" /\ tasks[k].st \in {"reading", "extracting"}) => (i < k /\ k <= i + batchSize)

C12_Witness ==
    \E k \in DOMAIN tasks :
        /\ tasks[k].late /\ tasks[k].st = "done" /\ tasks[k].look = "absent"
        /\ db[filePaths[k]] = [hash |-> tasks[k].hash, chunks |-> tasks[k].chunks]
        /\ filePaths[k] \notin DOMAIN db0
\* C13: the tasks of one run that write the cache (those that missed) have
\* pairwise distinct keys, so no two tasks in flight in a batch save the same
\* key and each key is saved at most once.
Writer(k) == tasks[k].st \in {"extracting", "done"} /\ tasks[k].look \in {"absent", "mismatch"}
C14_MissingDirFatal ==
    /\ pc # "idle" => targetPath \in ExistingDirs
    /\ (pc = "idle" /\ last.kind # "none" /\ last.prefix \notin ExistingDirs) => last.code # 0

\* C14 (amended): without --clear and --clear-all, a command whose target
\* directory does not exist ends with exit status 1, starts no run and leaves
\* the cache alone; with one of these flags the cache is cleared and the exit
\* status is 0 whether the target exists or not.
C14_MissingDirFatalUnlessClearing ==
    /\ pc # "idle" => targetPath \in ExistingDirs
    /\ last.kind = "nodir" => (last.code = 1 /\ last.prefix \notin ExistingDirs)
    /\ (last.kind = "nodir" /\ pc = "idle") => db = last.before
    /\ last.kind \in {"clear", "clearAll"} => last.code = 0

C14_Witness ==
    /\ last.kind = "nodir"
    /\ pc = "idle"
    /\ db # EmptyDb
\* C15: whatever filePaths and batchSize, a started run eventually returns a
\* result or rejects, given that every read and every extraction settles.
C15_RunTerminates == (pc = "await") ~> (pc \in {"done", "rejected"})

\* C16: every entry of the store pairs the fingerprint of some content with the
\* chunks extracted from that same content, also when the file is modified
\* between the task's read and the extractor's own read.
C16_EntryConsistent ==
    \A f \in DOMAIN db :
        \E c \in Contents : db[f].hash = getHash(c) /\ db[f].chunks = Extract(c)

\* C17: with a positive batchSize the task at position k starts in the batch whose
\* loop variable is batchSize * ((k - 1) \div batchSize), so the batches are
\* consecutive, of at most batchSize files and all but the last of exactly
\* batchSize; no file is read more than once, and when run returns every file was
\* read, hashed and looked up exactly once.
C17_Partition ==
    pc # "idle" =>
        /\ \A k \in DOMAIN tasks :
              /\ tasks[k].reads <= 1
              /\ tasks[k].reads = 0 <=> tasks[k].st = "pending"
              /\ tasks[k].reads = 1 =>
                    /\ batchSize > 0
                    /\ tasks[k].at = batchSize * ((k - 1) \div batchSize)
                    /\ tasks[k].at <= i
        /\ \A a \in 0..Len(filePaths) :
              LET batch == { k \in DOMAIN tasks : tasks[k].reads = 1 /\ tasks[k].at = a }
              IN /\ Cardinality(batch) <= batchSize
                 /\ (batch # {} /\ a + batchSize <= Len(filePaths))
                        => Cardinality(batch) = batchSize
                 /\ \A k \in batch : \A j \in a + 1 .. k : j \in batch
        /\ pc = "done" =>
              \A k \in DOMAIN filePaths :
                  /\ tasks[k].reads = 1
                  /\ tasks[k].st = "done"
                  /\ edited \/ tasks[k].hash = getHash(fs[filePaths[k]])
                  /\ tasks[k].look \in {"hit", "absent", "mismatch"}

\* a run over three files in batches of two has returned: the last batch is short
C17_Witness ==
    /\ pc = "done"
    /\ Len(filePaths) = 3
    /\ batchSize = 2
    /\ tasks[2].at = 0
    /\ tasks[3].at = 2

\* the positions of filePaths whose task has at least one chunk
WithChunks == { k \in DOMAIN filePaths : Len(tasks[k].chunks) > 0 }
\* the position in filePaths of a key of fileMap
PosOf(key) == CHOOSE k \in DOMAIN filePaths : Relative(targetPath, filePaths[k]) = key

\* C18: the keys of the returned result are those of the files with at least one
\* chunk, each once, in the order of filePaths, within a batch and across
\* batches, also when a task returned before an earlier task of its batch; the
\* partial result of a run in progress is ordered alike.
C18_ResultOrder ==
    /\ pc \in {"await", "done"} =>
          /\ \A a \in DOMAIN fileMap :
                \E k \in DOMAIN filePaths : fileMap[a].key = Relative(targetPath, filePaths[k])
          /\ \A a, b \in DOMAIN fileMap :
                a < b => PosOf(fileMap[a].key) < PosOf(fileMap[b].key)
    /\ pc = "done" =>
          /\ Len(fileMap) = Cardinality(WithChunks)
          /\ \A k \in WithChunks :
                \E a \in DOMAIN fileMap :
                    /\ fileMap[a].key = Relative(targetPath, filePaths[k])
                    /\ fileMap[a].chunks = tasks[k].chunks

\* a run has returned two keys of one batch whose second task returned first
C18_Witness ==
    /\ pc = "done"
    /\ Len(fileMap) >= 2
    /\ \E j, k \in WithChunks :
          /\ j < k
          /\ tasks[j].at = tasks[k].at
          /\ tasks[k].early

\* the task at position k has hashed its file and the store held, when the run
\* started, an entry of that file with that fingerprint
FoundEntry(k) ==
    /\ tasks[k].st \in {"extracting", "done"}
    /\ DbGet(db0, filePaths[k]) # Undefined
    /\ DbGet(db0, filePaths[k]).hash = tasks[k].hash

\* C19: a task that finds an entry with a matching fingerprint returns its chunks
\* with no extractor call and no write; an entry of the store differs from the one
\* at the start of the run only for a file whose task found no such entry; so a
\* run of hits only leaves the store as it was.
C19_HitNoEffect ==
    pc # "idle" =>
        /\ \A k \in DOMAIN tasks :
              FoundEntry(k) =>
                  /\ tasks[k].st = "done"
                  /\ tasks[k].look = "hit"
                  /\ tasks[k].chunks = DbGet(db0, filePaths[k]).chunks
                  /\ extractCalls[filePaths[k]] = 0
                  /\ DbGet(db, filePaths[k]) = DbGet(db0, filePaths[k])
        /\ \A f \in Files :
              DbGet(db, f) # DbGet(db0, f) =>
                  \E k \in DOMAIN tasks :
                      /\ filePaths[k] = f
                      /\ tasks[k].st = "done"
                      /\ ~FoundEntry(k)
        /\ (\A k \in DOMAIN tasks : FoundEntry(k)) => db = db0

\* a run of three hits has returned, one of them on an entry with no chunk
C19_Witness ==
    /\ pc = "done"
    /\ Len(filePaths) = 3
    /\ \A k \in DOMAIN tasks : FoundEntry(k)
    /\ \E k \in DOMAIN tasks : tasks[k].chunks = <<>>
    /\ db = db0

\* the task at position k has saved an entry of its file in this run
Saved(k) == tasks[k].st = "done" /\ ~FoundEntry(k)

\* C20: after a task saved (key, hash, chunks), a lookup of the key gives exactly
\* those chunks for that hash and nothing for any other hash, whatever entry the
\* key had before; the entry of a key no task of the run saved is the one the
\* store had when the run started.
C20_Upsert ==
    pc # "idle" =>
        /\ \A k \in DOMAIN tasks :
              Saved(k) =>
                  \A h \in Hashes :
                      getCachedChunks(db, filePaths[k], h) =
                          IF h = tasks[k].hash THEN tasks[k].chunks ELSE Null
        /\ \A f \in Files :
              (\A k \in DOMAIN tasks : filePaths[k] = f => ~Saved(k)) =>
                  DbGet(db, f) = DbGet(db0, f)

\* a task has replaced the entry of its file while the entry of another key, which
\* no task saved, is still there
C20_Witness ==
    /\ pc # "idle"
    /\ \E k \in DOMAIN tasks :
          /\ Saved(k)
          /\ DbGet(db0, filePaths[k]) # Undefined
          /\ DbGet(db, filePaths[k]) # DbGet(db0, filePaths[k])
          /\ \E f \in DOMAIN db0 :
                /\ f # filePaths[k]
                /\ \A j \in DOMAIN tasks : filePaths[j] = f => ~Saved(j)
                /\ db[f] = db0[f]
====
